---- MODULE Spec2Model ----
(***************************************************************************)
(* The WorkOS MCP gateway: the organization mapper (mapping.ts) and the    *)
(* request pipeline of the Gateway class (gateway.ts):                     *)
(*   POST /:organizationId/mcp                                             *)
(*     -> ensureMappingMiddleware -> bearerTokenMiddleware -> proxy.       *)
(*                                                                         *)
(* Strings the code inspects character by character (the Authorization     *)
(* header, organization ids, partitions, API keys) are sequences of        *)
(* one-character strings; URL paths are sequences of such segments         *)
(* ("/o1/mcp/tool" is <<o1, mcp, tool>>).  Strings the code only copies    *)
(* are TLA+ strings.                                                       *)
(*                                                                         *)
(* Four specifications share the variables:                                *)
(*   Spec        the request pipeline of a gateway that is serving;        *)
(*   MapperSpec  a mapper constructed directly, its methods called;        *)
(*   LoadSpec    main() loading the mapper, then the mapper's methods;     *)
(*   MainSpec    main() loading the mapper, then start() and stop() calls  *)
(*               on the Gateway with their listen and close callbacks.     *)
(***************************************************************************)
EXTENDS Integers, Sequences, FiniteSets, TLC

VARIABLES
  config,    \* Config: strictMapping, strictApiKeys, ragieApiKey, baseUrl
  mapping,   \* the mapper's table: organization id -> [partition, apiKey]
  requests,  \* the requests the gateway has received, by request number
  call,      \* the latest direct call of a Mapper method and its outcome
  mappingFile, \* what config.mappingFile names on disk
  main,      \* the process: where main() is, and the error it logged
  isRunning, \* Gateway.isRunning
  server,    \* Gateway.server: 0 for null, else a number in servers
  servers,   \* the http servers app.listen has created, in order
  calls,     \* the start() and stop() calls made, each with its promise
  events     \* the 'started' / 'stopped' events emitted, in order

startupVars == <<mappingFile, main>>
gatewayVars == <<isRunning, server, servers, calls, events>>
vars == <<config, mapping, requests, call, startupVars, gatewayVars>>

\* ------------------------------------------------------------------ bounds
MaxRequests == 2
\* The start() and stop() calls made on one gateway.
MaxCalls == 3

\* ------------------------------------------------------------- JS values
\* JavaScript's undefined, as a value comparable with character sequences.
Undefined == <<"undefined">>

\* `${x}` in a template literal.
TemplateString(x) ==
  IF x = Undefined THEN <<"u", "n", "d", "e", "f", "i", "n", "e", "d">> ELSE x

LowerChar(c) ==
  CASE c = "O" -> "o"
    [] c = "P" -> "p"
    [] c = "K" -> "k"
    [] c = "T" -> "t"
    [] c = "B" -> "b"
    [] c = "M" -> "m"
    [] OTHER -> c

toLowerCase(s) == [i \in 1..Len(s) |-> LowerChar(s[i])]

RECURSIVE join(_, _)
join(parts, separator) ==
  IF Len(parts) = 0 THEN ""
  ELSE IF Len(parts) = 1 THEN parts[1]
  ELSE parts[1] \o separator \o join(Tail(parts), separator)

\* -------------------------------------------------------------- the data
Org1 == <<"o", "1">>
Org2 == <<"O", "2">>
\* A name every JavaScript object inherits from Object.prototype.
ValueOf == <<"v", "a", "l", "u", "e", "O", "f">>
OrganizationIds == {Org1, Org2, ValueOf}

ObjectPrototypeKeys == {ValueOf}

P1 == <<"p", "1">>
P2 == <<"p", "2">>
K1 == <<"k", "1">>
DefaultKey == <<"r", "k">>

Table1 == (Org1 :> [partition |-> P1, apiKey |-> K1])
Table2 == (Org1 :> [partition |-> P1, apiKey |-> K1])
            @@ (Org2 :> [partition |-> P2, apiKey |-> Undefined])
\* The tables of the mapping files the gateway serves requests with.
MappingFiles == {Table1, Table2}

BaseUrl == "https://gateway.example.com"

\* PORT's default.
DefaultPort == 3000
\* The ports a deployment may be given: the default, and 0, with which the
\* system picks a free port at every listen.
Ports == {0, DefaultPort}

\* The configurations: both resolver policies with both API-key policies,
\* on the default port.
Configs ==
  { [strictMapping |-> sm, strictApiKeys |-> sk,
     ragieApiKey |-> DefaultKey, baseUrl |-> BaseUrl, port |-> DefaultPort] :
    sm \in BOOLEAN, sk \in BOOLEAN }

\* A table whose entry carries the empty string as its apiKey.
Table3 == (Org1 :> [partition |-> P1, apiKey |-> <<>>])
\* The tables a mapper may be constructed with: new DefaultMapper(config,
\* mapping) and new StrictMapper(config, mapping) take any table of the
\* MappingSchema type, whatever config.strictApiKeys says.
ConstructorTables == {<< >>, Table1, Table2, Table3}

\* --------------------------------------------------------------- mapper
\* this.mapping[organizationId]: an own entry, a member inherited from
\* Object.prototype (an object with neither field), or undefined.
Lookup(table, organizationId) ==
  IF organizationId \in DOMAIN table
    THEN [defined |-> TRUE, partition |-> table[organizationId].partition,
          apiKey |-> table[organizationId].apiKey]
  ELSE IF organizationId \in ObjectPrototypeKeys
    THEN [defined |-> TRUE, partition |-> Undefined, apiKey |-> Undefined]
  ELSE [defined |-> FALSE, partition |-> Undefined, apiKey |-> Undefined]

Return(v) == [threw |-> FALSE, value |-> v, message |-> "", about |-> <<>>]
Throw(text, organizationId) ==
  [threw |-> TRUE, value |-> Undefined, message |-> text, about |-> organizationId]

NotFoundMessage == "Organization ${organizationId} not found in mapping"
NoApiKeyMessage == "Organization ${organizationId} has no API key in mapping"

\* !entry.apiKey : undefined and the empty string are both falsy.
Falsy(s) == s = Undefined \/ s = <<>>

DefaultMapper_hasMapping(table, organizationId) == TRUE

DefaultMapper_getPartition(table, organizationId) ==
  LET entry == Lookup(table, organizationId) IN
  IF entry.defined THEN Return(entry.partition)
  ELSE Return(toLowerCase(organizationId))

\* A getApiKey that hands out the entry's apiKey field as it finds it.
DefaultMapper_getApiKey_noFallback(cfg, table, organizationId) ==
  LET entry == Lookup(table, organizationId) IN
  IF ~entry.defined THEN Return(cfg.ragieApiKey)
  ELSE IF cfg.strictApiKeys /\ Falsy(entry.apiKey)
    THEN Throw(NoApiKeyMessage, organizationId)
    ELSE Return(entry.apiKey)

DefaultMapper_getApiKey(cfg, table, organizationId) ==
  LET entry == Lookup(table, organizationId) IN
  IF ~entry.defined THEN Return(cfg.ragieApiKey)
  ELSE IF cfg.strictApiKeys
    THEN IF Falsy(entry.apiKey)
           THEN Throw(NoApiKeyMessage, organizationId)
           ELSE Return(entry.apiKey)
    ELSE Return(IF entry.apiKey = Undefined THEN cfg.ragieApiKey ELSE entry.apiKey)

\* A hasMapping that counts only entries with an apiKey.
StrictMapper_hasMapping_needsApiKey(table, organizationId) ==
  LET entry == Lookup(table, organizationId) IN
  entry.defined /\ entry.apiKey # Undefined

StrictMapper_hasMapping(table, organizationId) ==
  Lookup(table, organizationId).defined

StrictMapper_getPartition(table, organizationId) ==
  LET entry == Lookup(table, organizationId) IN
  IF entry.defined THEN Return(entry.partition)
  ELSE Throw(NotFoundMessage, organizationId)

\* A getApiKey that falls back to the default key whatever strictApiKeys says.
StrictMapper_getApiKey_lenient(cfg, table, organizationId) ==
  LET entry == Lookup(table, organizationId) IN
  IF ~entry.defined THEN Throw(NotFoundMessage, organizationId)
  ELSE Return(IF entry.apiKey = Undefined THEN cfg.ragieApiKey ELSE entry.apiKey)

StrictMapper_getApiKey(cfg, table, organizationId) ==
  LET entry == Lookup(table, organizationId) IN
  IF ~entry.defined THEN Throw(NotFoundMessage, organizationId)
  ELSE IF cfg.strictApiKeys
    THEN IF Falsy(entry.apiKey)
           THEN Throw(NoApiKeyMessage, organizationId)
           ELSE Return(entry.apiKey)
    ELSE Return(IF entry.apiKey = Undefined THEN cfg.ragieApiKey ELSE entry.apiKey)

\* The Mapper interface, dispatched on the class loadMapper chose.
hasMapping(cfg, table, organizationId) ==
  IF cfg.strictMapping THEN StrictMapper_hasMapping(table, organizationId)
  ELSE DefaultMapper_hasMapping(table, organizationId)

getPartition(cfg, table, organizationId) ==
  IF cfg.strictMapping THEN StrictMapper_getPartition(table, organizationId)
  ELSE DefaultMapper_getPartition(table, organizationId)

getApiKey(cfg, table, organizationId) ==
  IF cfg.strictMapping THEN StrictMapper_getApiKey(cfg, table, organizationId)
  ELSE DefaultMapper_getApiKey(cfg, table, organizationId)

\* ---------------------------------------------------------- mapping file
\* What config.mappingFile names: nothing (MAPPING_FILE unset), or a file
\* that readFileSync can or cannot read, whose text JSON.parse does or does
\* not accept, and the value it parses to: an object of entries, each with
\* its partition and apiKey (Undefined when the field is missing), or a
\* value that is not an object.
NoMappingFile ==
  [configured |-> FALSE, readable |-> FALSE, parses |-> FALSE,
   isObject |-> FALSE, entries |-> << >>]
UnreadableFile ==
  [configured |-> TRUE, readable |-> FALSE, parses |-> FALSE,
   isObject |-> FALSE, entries |-> << >>]
InvalidJsonFile ==
  [configured |-> TRUE, readable |-> TRUE, parses |-> FALSE,
   isObject |-> FALSE, entries |-> << >>]
NotAnObjectFile ==
  [configured |-> TRUE, readable |-> TRUE, parses |-> TRUE,
   isObject |-> FALSE, entries |-> << >>]
JsonFile(table) ==
  [configured |-> TRUE, readable |-> TRUE, parses |-> TRUE,
   isObject |-> TRUE, entries |-> table]

\* A file whose entry has no partition field.
TableNoPartition == (Org1 :> [partition |-> Undefined, apiKey |-> K1])

\* The mapping files a deployment may be started with.
StartupFiles ==
  { NoMappingFile, UnreadableFile, InvalidJsonFile, NotAnObjectFile }
    \cup { JsonFile(t) : t \in {<< >>, Table1, Table2, Table3, TableNoPartition} }

ReadFailedMessage == "Failed to read JSON file: ${String(error)}"
ValidationFailedMessage == "Mapping file validation failed: ${errorMessages}"
MappingFileRequiredMessage == "mappingFile is required when strictMapping is true"

\* A ZodError with its issues, each named by its path.
ZodError(issues) ==
  [threw |-> TRUE, value |-> Undefined, message |-> "ZodError", about |-> issues]

readJsonFile(file) ==
  IF file.readable /\ file.parses THEN Return(file)
  ELSE Throw(ReadFailedMessage, {})

\* The issues z.record(z.string(), z.object({partition: z.string(),
\* apiKey: z.string().optional()})) finds in a parsed value.
MappingSchema(json) ==
  IF ~json.isObject THEN {<< >>}
  ELSE { <<id, "partition">> :
           id \in {k \in DOMAIN json.entries : json.entries[k].partition = Undefined} }

\* The same with apiKey: z.string(): the field must be there, and any
\* string, the empty one included, is accepted.
StrictApiKeyMappingSchema(json) ==
  IF ~json.isObject THEN {<< >>}
  ELSE MappingSchema(json) \cup
       { <<id, "apiKey">> :
           id \in {k \in DOMAIN json.entries : json.entries[k].apiKey = Undefined} }

\* DefaultMapper.load and StrictMapper.load: the table of the mapper built.
DefaultMapper_load(cfg, file) ==
  LET json == readJsonFile(file) IN
  IF json.threw THEN json
  ELSE LET issues == IF cfg.strictApiKeys THEN StrictApiKeyMappingSchema(json.value)
                     ELSE MappingSchema(json.value)
       IN IF issues # {} THEN ZodError(issues) ELSE Return(json.value.entries)

StrictMapper_load(cfg, file) ==
  LET json == readJsonFile(file) IN
  IF json.threw THEN json
  ELSE LET issues == IF cfg.strictApiKeys THEN StrictApiKeyMappingSchema(json.value)
                     ELSE MappingSchema(json.value)
       IN IF issues # {} THEN ZodError(issues) ELSE Return(json.value.entries)

\* A loadMapper that lets the ZodError through as it is.
loadMapper_raw(cfg, file) ==
  IF cfg.strictMapping
    THEN IF ~file.configured THEN Throw(MappingFileRequiredMessage, {})
         ELSE StrictMapper_load(cfg, file)
  ELSE IF file.configured THEN DefaultMapper_load(cfg, file)
  ELSE Return(<< >>)

\* loadMapper: the class follows config.strictMapping; a StrictMapper needs
\* a mapping file, a DefaultMapper without one gets the empty table; a
\* ZodError is rethrown as an Error that lists the issues.
loadMapper(cfg, file) ==
  LET result ==
        IF cfg.strictMapping
          THEN IF ~file.configured THEN Throw(MappingFileRequiredMessage, {})
               ELSE StrictMapper_load(cfg, file)
        ELSE IF file.configured THEN DefaultMapper_load(cfg, file)
        ELSE Return(<< >>)
  IN IF result.threw /\ result.message = "ZodError"
       THEN Throw(ValidationFailedMessage, result.about)
       ELSE result

\* A direct call of a Mapper method, as the unit tests make them.
NoCall == [method |-> "", organizationId |-> Undefined, result |-> Return(Undefined)]
Call(method, organizationId, result) ==
  [method |-> method, organizationId |-> organizationId, result |-> result]

\* -------------------------------------------------------------- requests
Mcp == <<"m", "c", "p">>
Tool == <<"t", "o", "o", "l">>
BearerPrefix == <<"B", "e", "a", "r", "e", "r", " ">>
Token1 == <<"t", "1">>
Token2 == <<"t", "2">>
User1 == <<"u", "1">>
User2 == <<"u", "2">>

\* Authorization headers a client may send (Undefined: no header).
AuthorizationHeaders ==
  { Undefined,
    <<"B", "a", "s", "i", "c", " ">> \o Token1,
    <<"b", "e", "a", "r", "e", "r", " ">> \o Token1,
    BearerPrefix,
    BearerPrefix \o Token1,
    BearerPrefix \o Token2 }

\* The requests a client may send: on the route, every organization id
\* without a header and with a bearer token, and one organization with every
\* header; off the route, the same authenticated request with another method
\* and with a longer path.
ClientRequests ==
  { [method |-> "POST", path |-> <<o, Mcp>>, authorization |-> h] :
      o \in OrganizationIds, h \in {Undefined, BearerPrefix \o Token1} }
  \cup
  { [method |-> "POST", path |-> <<Org1, Mcp>>, authorization |-> h] :
      h \in AuthorizationHeaders }
  \cup
  { [method |-> "GET", path |-> <<Org1, Mcp>>,
     authorization |-> BearerPrefix \o Token1],
    [method |-> "POST", path |-> <<Org1, Mcp, Tool>>,
     authorization |-> BearerPrefix \o Token1] }

\* The subject a token's payload carries, when it carries one.
SubjectOf(token) == IF token = Token1 THEN User1 ELSE User2

\* jwtVerify either rejects (bad signature, expired, wrong issuer) or
\* resolves with the payload, whose sub may be missing.
Rejected == [resolved |-> FALSE, sub |-> Undefined]
Payload(sub) == [resolved |-> TRUE, sub |-> sub]
JwtVerifyOutcomes(token) ==
  {Rejected, Payload(Undefined), Payload(SubjectOf(token))}

\* listOrganizationMemberships either throws or resolves with response.data.
MembershipThrows == [resolved |-> FALSE, data |-> <<>>]
MembershipData(data) == [resolved |-> TRUE, data |-> data]
Membership(userId, organizationId) ==
  [userId |-> userId, organizationId |-> organizationId, status |-> "active"]
MembershipOutcomes(query) ==
  { MembershipThrows, MembershipData(<<>>),
    MembershipData(<<Membership(query.userId, query.organizationId)>>) }

IdleRequest ==
  [ pc |-> "idle",
    method |-> "", path |-> <<>>, authorization |-> Undefined,
    organizationId |-> Undefined,   \* req.params.organizationId
    userId |-> Undefined,
    hasMappingCalls |-> <<>>,       \* [organizationId, result] per call
    jwtVerifyCalls |-> <<>>,        \* the token passed, per call
    jwtVerifyResults |-> <<>>,      \* what each call settled with
    membershipCalls |-> <<>>,       \* the query passed, per call
    membershipResults |-> <<>>,     \* what each query settled with
    next |-> <<>>,                  \* the middlewares that called next()
    responses |-> <<>>,             \* responses sent to the client
    upstream |-> <<>>,              \* requests sent to the upstream
    rejections |-> <<>> ]           \* errors that escaped a handler

Requests == 1..MaxRequests

TypeOK ==
  /\ config.strictMapping \in BOOLEAN
  /\ config.strictApiKeys \in BOOLEAN
  /\ DOMAIN requests = Requests
  /\ \A r \in Requests :
       requests[r].pc \in
         {"idle", "jwtVerify", "listOrganizationMemberships", "proxy", "done"}

\* --------------------------------------------------------------- gateway
ProtectedResourcePath == "/.well-known/oauth-protected-resource"

\* A challenge that names the authorization-server document instead.
wwwAuthenticateHeader_authorizationServer(cfg) ==
  "Bearer error=\"unauthorized\", error_description=\"Authorization needed\", "
    \o "resource_metadata=\"" \o cfg.baseUrl
    \o "/.well-known/oauth-authorization-server\""

\* Gateway.constructor: this.wwwAuthenticateHeader.
wwwAuthenticateHeader(cfg) ==
  join(<< "Bearer error=\"unauthorized\"",
          "error_description=\"Authorization needed\"",
          "resource_metadata=\"" \o cfg.baseUrl \o ProtectedResourcePath \o "\"" >>,
       ", ")

\* res.status(status).json(body), after res.set(...) of the given headers.
Response(status, headers, body) ==
  [status |-> status, headers |-> headers, body |-> body]

Unauthorized(cfg, error) ==
  Response(401, {<<"WWW-Authenticate", wwwAuthenticateHeader(cfg)>>}, [error |-> error])

NotFoundResponse == Response(404, {}, [error |-> "Organization not found"])
NoTokenResponse(cfg) == Unauthorized(cfg, "No token provided.")
InvalidTokenResponse(cfg) == Unauthorized(cfg, "Invalid bearer token.")
\* A denial answered 403 without the challenge.
MembershipDeniedResponse_forbidden(cfg) ==
  Response(403, {}, [error |-> "Invalid bearer token."])

MembershipDeniedResponse(cfg) == Unauthorized(cfg, "Invalid bearer token.")

\* What express does with a request no route handles, and with an error
\* passed to next(err) when no error handler is installed.
NoRouteResponse(req) == Response(404, {}, [html |-> "Cannot " \o req.method])
ServerErrorResponse == Response(500, {}, [html |-> "Internal Server Error"])

Send(req, response) ==
  [req EXCEPT !.pc = "done", !.responses = Append(@, response)]

\* A `.` of the regular expression matches anything but a line terminator.
LineTerminator(c) == c \in {"\n", "\r"}

\* The match with the scheme compared case-insensitively (/^Bearer (.+)$/i).
BearerToken_ignoreCase(authorization) ==
  IF /\ authorization # Undefined
     /\ Len(authorization) > Len(BearerPrefix)
     /\ toLowerCase(SubSeq(authorization, 1, Len(BearerPrefix))) = toLowerCase(BearerPrefix)
    THEN SubSeq(authorization, Len(BearerPrefix) + 1, Len(authorization))
    ELSE Undefined

\* req.headers.authorization?.match(/^Bearer (.+)$/)?.[1]
BearerToken(authorization) ==
  IF /\ authorization # Undefined
     /\ Len(authorization) > Len(BearerPrefix)
     /\ SubSeq(authorization, 1, Len(BearerPrefix)) = BearerPrefix
     /\ \A i \in (Len(BearerPrefix) + 1)..Len(authorization) :
          ~LineTerminator(authorization[i])
    THEN SubSeq(authorization, Len(BearerPrefix) + 1, Len(authorization))
    ELSE Undefined

\* The query with its two ids in each other's place.
MembershipQuery_swapped(userId, organizationId) ==
  [userId |-> organizationId, organizationId |-> userId, statuses |-> <<"active">>]

\* The arguments of workos.userManagement.listOrganizationMemberships.
MembershipQuery(userId, organizationId) ==
  [userId |-> userId, organizationId |-> organizationId, statuses |-> <<"active">>]

\* A membership check that never denies.
NoActiveMembership_never(data) == FALSE

\* response.data.length === 0
NoActiveMembership(data) == Len(data) = 0

\* bearerTokenMiddleware, up to its first await.
bearerTokenMiddleware(cfg, req) ==
  LET token == BearerToken(req.authorization) IN
  IF Falsy(token) THEN Send(req, NoTokenResponse(cfg))
  ELSE [req EXCEPT !.pc = "jwtVerify", !.jwtVerifyCalls = Append(@, token)]

ensureMappingMiddleware(cfg, table, req) ==
  LET mapped == hasMapping(cfg, table, req.organizationId)
      called == [req EXCEPT !.hasMappingCalls =
                   Append(@, [organizationId |-> req.organizationId, result |-> mapped])]
  IN IF ~mapped THEN Send(called, NotFoundResponse)
     ELSE bearerTokenMiddleware(cfg,
            [called EXCEPT !.next = Append(@, "ensureMappingMiddleware")])

\* app.post("/:organizationId/mcp", ...): the method and the whole path must
\* match; a trailing slash is accepted.
RouteMatches(method, path) ==
  /\ method = "POST"
  /\ Len(path) \in {2, 3}
  /\ path[1] # <<>>
  /\ path[2] = Mcp
  /\ Len(path) = 3 => path[3] = <<>>

\* The express application on an incoming request.
app(cfg, table, in) ==
  LET req == [IdleRequest EXCEPT !.method = in.method, !.path = in.path,
                                  !.authorization = in.authorization]
  IN IF RouteMatches(in.method, in.path)
       THEN ensureMappingMiddleware(cfg, table, [req EXCEPT !.organizationId = in.path[1]])
       ELSE Send(req, NoRouteResponse(req))

\* A handler's promise rejected.  Express 5 passes the error to next(err) and
\* its default error handler answers 500; express 4 ignores the promise and the
\* request gets no response (what the runtime then does with the rejection
\* nothing handles is left out).
Reject(req, error, handled) ==
  LET rejected == [req EXCEPT !.pc = "done", !.rejections = Append(@, error)]
  IN IF handled THEN Send(rejected, ServerErrorResponse) ELSE rejected

\* bearerTokenMiddleware from the result of jwtVerify to the next await.
afterJwtVerify(cfg, req, result, handled) ==
  LET got == [req EXCEPT !.jwtVerifyResults = Append(@, result)] IN
  IF ~result.resolved THEN Send(got, InvalidTokenResponse(cfg))
  ELSE IF Falsy(result.sub) THEN Reject(got, "AssertionError", handled)
  ELSE [got EXCEPT !.pc = "listOrganizationMemberships",
                   !.userId = result.sub,
                   !.membershipCalls =
                      Append(@, MembershipQuery(result.sub, req.organizationId))]

\* A membership check that sends the 401 and then goes on to next().
afterListOrganizationMemberships_fallsThrough(cfg, req, result, handled) ==
  LET got == [req EXCEPT !.membershipResults = Append(@, result)]
      sent == IF NoActiveMembership(result.data)
                THEN Send(got, MembershipDeniedResponse(cfg)) ELSE got
  IN IF ~result.resolved THEN Reject(got, "listOrganizationMemberships", handled)
     ELSE [sent EXCEPT !.pc = "proxy", !.next = Append(@, "bearerTokenMiddleware")]

\* bearerTokenMiddleware from the result of listOrganizationMemberships on.
afterListOrganizationMemberships(cfg, req, result, handled) ==
  LET got == [req EXCEPT !.membershipResults = Append(@, result)] IN
  IF ~result.resolved THEN Reject(got, "listOrganizationMemberships", handled)
  ELSE IF NoActiveMembership(result.data)
    THEN Send(got, MembershipDeniedResponse(cfg))
    ELSE [got EXCEPT !.pc = "proxy", !.next = Append(@, "bearerTokenMiddleware")]

\* pathRewrite: `/mcp/${partition}/`
pathRewrite(partition) == <<Mcp, TemplateString(partition), <<>>>>

\* A hook that leaves the copied client header in place.
proxyReq_keep(outgoing, apiKey) == outgoing

\* The proxyReq hook: proxyReq.setHeader("Authorization", `Bearer ${apiKey}`)
proxyReq(outgoing, apiKey) ==
  [outgoing EXCEPT !.authorization = BearerPrefix \o TemplateString(apiKey)]

\* A proxy that looks the organization up by its lowercased id.
createProxyMiddleware_otherOrg(cfg, table, req) ==
  LET partition == getPartition(cfg, table, toLowerCase(req.organizationId))
      apiKey == getApiKey(cfg, table, toLowerCase(req.organizationId))
      outgoing == [path |-> pathRewrite(partition.value),
                   authorization |-> req.authorization]
  IN IF partition.threw
       THEN Send([req EXCEPT !.rejections = Append(@, partition.message)],
                 ServerErrorResponse)
     ELSE IF apiKey.threw
       THEN [req EXCEPT !.pc = "done", !.rejections = Append(@, apiKey.message)]
     ELSE [req EXCEPT !.pc = "done",
                      !.upstream = Append(@, proxyReq(outgoing, apiKey.value))]

\* The proxy middleware: the outgoing request starts as a copy of the incoming
\* one, gets its path rewritten, passes the proxyReq hook and is sent.  A throw
\* in pathRewrite goes to next(err); a throw in the hook ends the process with
\* nothing sent.
createProxyMiddleware(cfg, table, req) ==
  LET partition == getPartition(cfg, table, req.organizationId)
      apiKey == getApiKey(cfg, table, req.organizationId)
      outgoing == [path |-> pathRewrite(partition.value),
                   authorization |-> req.authorization]
  IN IF partition.threw
       THEN Send([req EXCEPT !.rejections = Append(@, partition.message)],
                 ServerErrorResponse)
     ELSE IF apiKey.threw
       THEN [req EXCEPT !.pc = "done", !.rejections = Append(@, apiKey.message)]
     ELSE [req EXCEPT !.pc = "done",
                      !.upstream = Append(@, proxyReq(outgoing, apiKey.value))]

\* ------------------------------------------------------------- lifecycle
\* main(): before loadMapper, past it with the mapper in hand, or ended by
\* process.exit(1) with the error it logged.
AtLoadMapper == [pc |-> "loadMapper", error |-> ""]
Constructed == [pc |-> "constructed", error |-> ""]
Exit1(error) == [pc |-> "exit(1)", error |-> error]
\* An exception nothing catches (an 'error' event with no listener, a throw
\* in an event listener) ends the process.
UncaughtException(error) == [pc |-> "uncaughtException", error |-> error]

\* server.listening: the server holds its listening handle.
Listening(srv) == srv.state \in {"bound", "listening"}

\* Some server of this process holds the port.
PortHeld(srvs) == \E i \in DOMAIN srvs : Listening(srvs[i])

\* http.Server.listen(port): the bind succeeds or fails at once, and the
\* 'listening' or 'error' event follows; it fails when the port is taken,
\* by a server of this process (unless the port is 0 and the system picks a
\* free one) or (free = FALSE) by anything else.
listen(port, srvs, free) ==
  [state |-> IF (port # 0 /\ PortHeld(srvs)) \/ ~free THEN "failing" ELSE "bound",
   closeError |-> FALSE]

\* http.Server.close(callback): the handle is released at once and the
\* callback follows when the server has closed; it gets an error if the
\* server was not listening when close was called.
close(srv) ==
  IF Listening(srv) THEN [state |-> "closing", closeError |-> FALSE]
  ELSE [state |-> srv.state, closeError |-> TRUE]

\* A start() or stop() call: its promise, the server whose callback settles
\* it (0: none will), and what isActive() returned when it settled.
Pending(op, srv) == [op |-> op, state |-> "pending", server |-> srv, active |-> FALSE]
Settled(op, state, active) == [op |-> op, state |-> state, server |-> 0, active |-> active]

\* The Gateway as its constructor leaves it.
NoGateway ==
  /\ isRunning = FALSE
  /\ server = 0
  /\ servers = <<>>
  /\ calls = <<>>
  /\ events = <<>>

\* The Gateway after main's start() has resolved.
Serving ==
  /\ isRunning = TRUE
  /\ server = 1
  /\ servers = <<[state |-> "listening", closeError |-> FALSE]>>
  /\ calls = <<Settled("start", "resolved", TRUE)>>
  /\ events = <<"started">>

\* ---------------------------------------------------------------- actions
Init ==
  /\ config \in Configs
  /\ mappingFile \in {NoMappingFile} \cup {JsonFile(t) : t \in MappingFiles}
  /\ ~loadMapper(config, mappingFile).threw
  /\ mapping = loadMapper(config, mappingFile).value
  /\ requests = [r \in Requests |-> IdleRequest]
  /\ call = NoCall
  /\ main = Constructed
  /\ Serving

\* A client's request arrives and runs up to its first await or its response.
Receive(r) ==
  /\ main = Constructed
  /\ requests[r].pc = "idle"
  /\ \E in \in ClientRequests :
       requests' = [requests EXCEPT ![r] = app(config, mapping, in)]
  /\ UNCHANGED <<config, mapping, call, startupVars, gatewayVars>>

\* Whether the framework handles a rejected handler: a choice only when the
\* handler rejects.
Handlings(rejects) == IF rejects THEN BOOLEAN ELSE {TRUE}

JwtVerifySettles(r) ==
  /\ main = Constructed
  /\ requests[r].pc = "jwtVerify"
  /\ \E result \in JwtVerifyOutcomes(requests[r].jwtVerifyCalls[1]) :
     \E handled \in Handlings(result.resolved /\ Falsy(result.sub)) :
       requests' = [requests EXCEPT ![r] = afterJwtVerify(config, @, result, handled)]
  /\ UNCHANGED <<config, mapping, call, startupVars, gatewayVars>>

\* A membership check that lets a request through, whatever the query
\* returned, once another request of the same subject for the same
\* organization was let through.
MembershipsSettle_cached(r) ==
  /\ main = Constructed
  /\ requests[r].pc = "listOrganizationMemberships"
  /\ \E result \in MembershipOutcomes(requests[r].membershipCalls[1]), handled \in BOOLEAN :
       LET allowed == \E o \in Requests \ {r} :
                        /\ requests[o].membershipCalls = requests[r].membershipCalls
                        /\ requests[o].upstream # <<>>
           used == IF allowed /\ result.resolved
                     THEN MembershipData(<<Membership(requests[r].userId,
                                                      requests[r].organizationId)>>)
                     ELSE result
           settled == afterListOrganizationMemberships(config, requests[r], used, handled)
       IN requests' = [requests EXCEPT ![r] =
                         [settled EXCEPT !.membershipResults =
                            Append(requests[r].membershipResults, result)]]
  /\ UNCHANGED <<config, mapping, call, startupVars, gatewayVars>>

MembershipsSettle(r) ==
  /\ main = Constructed
  /\ requests[r].pc = "listOrganizationMemberships"
  /\ \E result \in MembershipOutcomes(requests[r].membershipCalls[1]) :
     \E handled \in Handlings(~result.resolved) :
       requests' = [requests EXCEPT ![r] =
                      afterListOrganizationMemberships(config, @, result, handled)]
  /\ UNCHANGED <<config, mapping, call, startupVars, gatewayVars>>

\* A proxy step that drops the organization's entry once it has used it.
Proxy_forgets(r) ==
  /\ main = Constructed
  /\ requests[r].pc = "proxy"
  /\ requests' = [requests EXCEPT ![r] = createProxyMiddleware(config, mapping, @)]
  /\ mapping' = [id \in DOMAIN mapping \ {requests[r].organizationId} |-> mapping[id]]
  /\ UNCHANGED <<config, call, startupVars, gatewayVars>>

\* The proxy middleware runs; a throw in its proxyReq hook, which runs in a
\* listener of the outgoing request's 'socket' event, ends the process.
Proxy(r) ==
  /\ main = Constructed
  /\ requests[r].pc = "proxy"
  /\ requests' = [requests EXCEPT ![r] = createProxyMiddleware(config, mapping, @)]
  /\ main' = IF /\ ~getPartition(config, mapping, requests[r].organizationId).threw
                /\ getApiKey(config, mapping, requests[r].organizationId).threw
               THEN UncaughtException("proxyReq") ELSE main
  /\ UNCHANGED <<config, mapping, call, mappingFile, gatewayVars>>

Next ==
  \E r \in Requests :
    \/ Receive(r)
    \/ JwtVerifySettles(r)
    \/ MembershipsSettle(r)
    \/ Proxy(r)

Spec == Init /\ [][Next]_vars

\* ------------------------------------------------------ the mapper alone
\* A mapper constructed directly over any table, and its three methods
\* called with any organization id, in any order.
MapperInit ==
  /\ config \in Configs
  /\ mapping \in ConstructorTables
  /\ requests = [r \in Requests |-> IdleRequest]
  /\ call = NoCall
  /\ mappingFile = NoMappingFile
  /\ main = Constructed
  /\ NoGateway

CallHasMapping ==
  /\ \E organizationId \in OrganizationIds :
       call' = Call("hasMapping", organizationId,
                    Return(hasMapping(config, mapping, organizationId)))
  /\ UNCHANGED <<config, mapping, requests, startupVars, gatewayVars>>

CallGetPartition ==
  /\ \E organizationId \in OrganizationIds :
       call' = Call("getPartition", organizationId,
                    getPartition(config, mapping, organizationId))
  /\ UNCHANGED <<config, mapping, requests, startupVars, gatewayVars>>

CallGetApiKey ==
  /\ \E organizationId \in OrganizationIds :
       call' = Call("getApiKey", organizationId,
                    getApiKey(config, mapping, organizationId))
  /\ UNCHANGED <<config, mapping, requests, startupVars, gatewayVars>>

MapperNext == CallHasMapping \/ CallGetPartition \/ CallGetApiKey

MapperSpec == MapperInit /\ [][MapperNext]_vars

\* ----------------------------------------------------------- the process
\* The process as it is started: any configuration, any mapping file,
\* main() about to call loadMapper.
MainInit ==
  /\ config \in {[c EXCEPT !.port = port] : c \in Configs, port \in Ports}
  /\ mappingFile \in StartupFiles
  /\ mapping = << >>
  /\ requests = [r \in Requests |-> IdleRequest]
  /\ call = NoCall
  /\ main = AtLoadMapper
  /\ NoGateway

\* A main() that goes on with an empty table when loadMapper throws.
Main_ignoresFailure ==
  /\ main = AtLoadMapper
  /\ LET result == loadMapper(config, mappingFile) IN
       mapping' = IF result.threw THEN << >> ELSE result.value
  /\ main' = Constructed
  /\ UNCHANGED <<config, requests, call, mappingFile, gatewayVars>>

\* main() up to the Gateway's construction: loadMapper, and on its failure
\* logger.error and process.exit(1).
Main ==
  /\ main = AtLoadMapper
  /\ LET result == loadMapper(config, mappingFile) IN
       IF result.threw
         THEN /\ main' = Exit1(result.message)
              /\ UNCHANGED mapping
         ELSE /\ main' = Constructed
              /\ mapping' = result.value
  /\ UNCHANGED <<config, requests, call, mappingFile, gatewayVars>>

\* A start() that listens whether or not the gateway is running.
Start_alwaysListens ==
  /\ main = Constructed
  /\ Len(calls) < MaxCalls
  /\ \E free \in BOOLEAN :
       servers' = Append(servers, listen(config.port, servers, free))
  /\ server' = Len(servers) + 1
  /\ calls' = Append(calls, Pending("start", Len(servers) + 1))
  /\ UNCHANGED <<isRunning, events>>
  /\ UNCHANGED <<config, mapping, requests, call, startupVars>>

\* gateway.start(), up to the promise it returns.
Start ==
  /\ main = Constructed
  /\ Len(calls) < MaxCalls
  /\ IF isRunning
       THEN /\ calls' = Append(calls, Settled("start", "resolved", isRunning))
            /\ UNCHANGED <<isRunning, server, servers, events>>
       ELSE /\ \E free \in BOOLEAN :
                 servers' = Append(servers, listen(config.port, servers, free))
            /\ server' = Len(servers) + 1
            /\ calls' = Append(calls, Pending("start", Len(servers) + 1))
            /\ UNCHANGED <<isRunning, events>>
  /\ UNCHANGED <<config, mapping, requests, call, startupVars>>

\* The listen callback of start(), called without an error.
ListenCallback(c) ==
  /\ main = Constructed
  /\ calls[c].op = "start" /\ calls[c].state = "pending"
  /\ servers[calls[c].server].state = "bound"
  /\ servers' = [servers EXCEPT ![calls[c].server].state = "listening"]
  /\ isRunning' = TRUE
  /\ events' = Append(events, "started")
  /\ calls' = [calls EXCEPT ![c] = Settled("start", "resolved", isRunning')]
  /\ UNCHANGED <<config, mapping, requests, call, startupVars, server>>

\* The server's 'error' event after a failed listen: the callback is called
\* with the error and start() rejects, or (handled = FALSE) the event has no
\* listener and ends the process.
ListenError(c) ==
  /\ main = Constructed
  /\ calls[c].op = "start" /\ calls[c].state = "pending"
  /\ servers[calls[c].server].state = "failing"
  /\ \E handled \in BOOLEAN :
       IF handled
         THEN /\ servers' = [servers EXCEPT ![calls[c].server].state = "failed"]
              /\ calls' = [calls EXCEPT ![c] = Settled("start", "rejected", isRunning)]
              /\ UNCHANGED main
         ELSE /\ main' = UncaughtException("listen")
              /\ UNCHANGED <<servers, calls>>
  /\ UNCHANGED <<config, mapping, requests, call, mappingFile,
                 isRunning, server, events>>

\* gateway.stop(), up to the promise it returns.
Stop ==
  /\ main = Constructed
  /\ Len(calls) < MaxCalls
  /\ IF ~isRunning
       THEN /\ calls' = Append(calls, Settled("stop", "resolved", isRunning))
            /\ UNCHANGED <<isRunning, servers, events>>
     ELSE IF server # 0
       THEN IF Listening(servers[server])
              THEN /\ servers' = [servers EXCEPT ![server] = close(@)]
                   /\ calls' = Append(calls, Pending("stop", server))
                   /\ UNCHANGED <<isRunning, events>>
              ELSE \* neither branch runs: the promise is never settled
                   /\ calls' = Append(calls, Pending("stop", 0))
                   /\ UNCHANGED <<isRunning, servers, events>>
     ELSE /\ isRunning' = FALSE
          /\ events' = Append(events, "stopped")
          /\ calls' = Append(calls, Settled("stop", "resolved", isRunning'))
          /\ UNCHANGED servers
  /\ UNCHANGED <<config, mapping, requests, call, startupVars, server>>

\* A close callback that resolves without clearing isRunning.
CloseCallback_keepsRunning(c) ==
  /\ main = Constructed
  /\ calls[c].op = "stop" /\ calls[c].state = "pending"
  /\ calls[c].server # 0
  /\ servers[calls[c].server].state = "closing"
  /\ servers' = [servers EXCEPT ![calls[c].server].state = "closed"]
  /\ calls' = [calls EXCEPT ![c] = Settled("stop", "resolved", isRunning)]
  /\ UNCHANGED <<config, mapping, requests, call, startupVars, server,
                 isRunning, events>>

\* The close callback of stop().
CloseCallback(c) ==
  /\ main = Constructed
  /\ calls[c].op = "stop" /\ calls[c].state = "pending"
  /\ calls[c].server # 0
  /\ servers[calls[c].server].state = "closing"
  /\ servers' = [servers EXCEPT ![calls[c].server].state = "closed"]
  /\ IF servers[calls[c].server].closeError
       THEN UNCHANGED <<isRunning, events>>
       ELSE /\ isRunning' = FALSE
            /\ events' = Append(events, "stopped")
  /\ calls' = [calls EXCEPT ![c] = Settled("stop", "resolved", isRunning')]
  /\ UNCHANGED <<config, mapping, requests, call, startupVars, server>>

MainNext ==
  \/ Main
  \/ Start
  \/ Stop
  \/ \E c \in 1..MaxCalls :
       /\ c \in DOMAIN calls
       /\ \/ ListenCallback(c)
          \/ ListenError(c)
          \/ CloseCallback(c)

MainSpec == MainInit /\ [][MainNext]_vars

\* ------------------------------------------------ the mapper once loaded
\* main() loads the mapper, and the mapper's methods are then called as
\* requests come in.
LoadNext ==
  \/ Main
  \/ /\ main = Constructed
     /\ \/ CallHasMapping
        \/ CallGetPartition
        \/ CallGetApiKey

LoadSpec == MainInit /\ [][LoadNext]_vars

\* ================================================================ claims
InSeq(x, seq) == \E i \in 1..Len(seq) : seq[i] = x

\* The request entered the route's gate sequence.
Routed(q) == q.pc # "idle" /\ RouteMatches(q.method, q.path)
\* The mapping-presence gate let the request into the auth pipeline.
EnteredPipeline(q) == InSeq("ensureMappingMiddleware", q.next)
\* The auth pipeline passed the request on to the proxy.
ProxyReached(q) ==
  q.pc = "proxy" \/ InSeq("bearerTokenMiddleware", q.next) \/ q.upstream # <<>>

\* C1: the upstream proxy is reached only if, for that same request,
\* hasMapping(organizationId) returned true, jwtVerify succeeded and yielded a
\* subject, and the membership query for (subject, organizationId, active)
\* returned a non-empty list.
C1_ProxyOnlyAfterAllGates ==
  \A r \in Requests :
    LET q == requests[r] IN
    ProxyReached(q) =>
      /\ q.hasMappingCalls = <<[organizationId |-> q.path[1], result |-> TRUE]>>
      /\ Len(q.jwtVerifyResults) = 1
      /\ q.jwtVerifyResults[1].resolved
      /\ q.jwtVerifyResults[1].sub # Undefined
      /\ q.membershipCalls =
           <<[userId |-> q.jwtVerifyResults[1].sub, organizationId |-> q.path[1],
              statuses |-> <<"active">>]>>
      /\ Len(q.membershipResults) = 1
      /\ q.membershipResults[1].resolved
      /\ Len(q.membershipResults[1].data) > 0

C1_Witness ==
  \E r \in Requests : requests[r].pc = "done" /\ requests[r].upstream # <<>>

\* C2: under the Strict policy a request whose organization id is not a key of
\* the mapping table is answered 404 {"error": "Organization not found"} by
\* the gate, and jwtVerify, the membership query and the upstream are never
\* called for it, whatever its Authorization header.
C2_StrictUnmappedGets404 ==
  \A r \in Requests :
    LET q == requests[r] IN
    (config.strictMapping /\ Routed(q) /\ q.path[1] \notin DOMAIN mapping) =>
      /\ q.responses = <<[status |-> 404, headers |-> {},
                          body |-> [error |-> "Organization not found"]]>>
      /\ q.jwtVerifyCalls = <<>>
      /\ q.membershipCalls = <<>>
      /\ q.upstream = <<>>

\* C3: every forwarded request carries Authorization "Bearer " + getApiKey(
\* organizationId) in place of the client's header: two forwarded requests for
\* the same organization carry the same header whatever the client sent, and
\* the client's token is not in the upstream request.
C3_UpstreamCredentialSubstituted ==
  /\ \A r \in Requests :
       LET q == requests[r] IN
       q.upstream # <<>> =>
         /\ Len(q.upstream) = 1
         /\ ~getApiKey(config, mapping, q.path[1]).threw
         /\ q.upstream[1].authorization =
              <<"B", "e", "a", "r", "e", "r", " ">>
                \o getApiKey(config, mapping, q.path[1]).value
         /\ q.upstream[1].authorization # q.authorization
  /\ \A r1, r2 \in Requests :
       ( /\ requests[r1].upstream # <<>>
         /\ requests[r2].upstream # <<>>
         /\ requests[r1].path[1] = requests[r2].path[1] )
       => requests[r1].upstream[1].authorization = requests[r2].upstream[1].authorization

C3_Witness ==
  \E r1, r2 \in Requests :
    /\ requests[r1].upstream # <<>>
    /\ requests[r2].upstream # <<>>
    /\ requests[r1].path[1] = requests[r2].path[1]
    /\ requests[r1].authorization # requests[r2].authorization

\* The part of the path after /{organizationId}/mcp.
Remainder(path) == SubSeq(path, 3, Len(path))

\* /mcp/<partition>/<remainder>
UpstreamPath(partition, remainder) ==
  <<Mcp, partition>> \o (IF remainder = <<>> THEN << <<>> >> ELSE remainder)

\* The gates refused the request: the gate's 404, a 401, or a fault.
Refused(q) ==
  \/ q.rejections # <<>>
  \/ \E i \in 1..Len(q.responses) :
       \/ q.responses[i].status = 401
       \/ q.responses[i].body = [error |-> "Organization not found"]

\* C4: an authenticated request to /{organizationId}/mcp<remainder> goes
\* upstream with path /mcp/<partition>/<remainder>, for every remainder.
C4_RemainderPreserved ==
  \A r \in Requests :
    LET q == requests[r] IN
    ( /\ q.pc = "done"
      /\ q.method = "POST"
      /\ Len(q.path) >= 2
      /\ q.path[2] = Mcp
      /\ ~Refused(q) )
    => /\ Len(q.upstream) = 1
       /\ ~getPartition(config, mapping, q.path[1]).threw
       /\ q.upstream[1].path =
            UpstreamPath(getPartition(config, mapping, q.path[1]).value,
                         Remainder(q.path))

\* The three authentication failures, from what the collaborators returned.
NoToken(q) ==
  EnteredPipeline(q) /\ q.pc = "done" /\ q.jwtVerifyCalls = <<>>
InvalidToken(q) ==
  q.pc = "done" /\ q.jwtVerifyResults # <<>> /\ ~q.jwtVerifyResults[1].resolved
MissingSubject(q) ==
  /\ q.pc = "done" /\ q.jwtVerifyResults # <<>>
  /\ q.jwtVerifyResults[1].resolved /\ q.jwtVerifyResults[1].sub = Undefined
MembershipDenied(q) ==
  /\ q.pc = "done" /\ q.membershipResults # <<>>
  /\ q.membershipResults[1].resolved /\ q.membershipResults[1].data = <<>>

\* The challenge the spec requires, built from the gateway's own
\* /.well-known/oauth-protected-resource URL.
Challenge ==
  "Bearer error=\"unauthorized\", error_description=\"Authorization needed\", "
    \o "resource_metadata=\"" \o config.baseUrl \o ProtectedResourcePath \o "\""

IsChallenge401(response) ==
  /\ response.status = 401
  /\ response.headers = {<<"WWW-Authenticate", Challenge>>}
  /\ DOMAIN response.body = {"error"}

\* C5 as claimed: NoToken, InvalidToken and MembershipDenied give the same
\* response, so that a client cannot tell the three kinds apart.
C5_FailuresIndistinguishable ==
  \A r1, r2 \in Requests :
    LET q1 == requests[r1]
        q2 == requests[r2] IN
    ( /\ NoToken(q1) \/ InvalidToken(q1) \/ MembershipDenied(q1)
      /\ NoToken(q2) \/ InvalidToken(q2) \/ MembershipDenied(q2) )
    => /\ Len(q1.responses) = 1
       /\ IsChallenge401(q1.responses[1])
       /\ q1.responses = q2.responses

\* C5 as amended: the three failures give status 401, the same
\* WWW-Authenticate value and a body with the single field error; the error
\* text is "No token provided." for NoToken and "Invalid bearer token." for
\* the other two, which are therefore the only two a client cannot tell apart.
C5_FailuresShareShape ==
  /\ \A r \in Requests :
       LET q == requests[r] IN
       (NoToken(q) \/ InvalidToken(q) \/ MembershipDenied(q)) =>
         /\ Len(q.responses) = 1
         /\ IsChallenge401(q.responses[1])
         /\ q.responses[1].body.error =
              IF NoToken(q) THEN "No token provided." ELSE "Invalid bearer token."
  /\ \A r1, r2 \in Requests :
       (InvalidToken(requests[r1]) /\ MembershipDenied(requests[r2]))
         => requests[r1].responses = requests[r2].responses

C5_Witness ==
  \E r1, r2 \in Requests : InvalidToken(requests[r1]) /\ MembershipDenied(requests[r2])

\* C6: a token that verifies but whose payload has no subject is answered 401
\* with the challenge, without a membership query and without a forward.
C6_MissingSubjectIs401 ==
  \A r \in Requests :
    LET q == requests[r] IN
    MissingSubject(q) =>
      /\ Len(q.responses) = 1
      /\ IsChallenge401(q.responses[1])
      /\ q.membershipCalls = <<>>
      /\ q.upstream = <<>>

\* The auth pipeline has ended for the request.
PipelineEnded(q) ==
  EnteredPipeline(q) /\ q.pc \notin {"jwtVerify", "listOrganizationMemberships"}

\* C7: whatever the collaborators return, the pipeline ends by sending a 401 or
\* by passing the request on; no error escapes it.
C7_PipelineNeverFaults ==
  \A r \in Requests :
    LET q == requests[r] IN
    PipelineEnded(q) =>
      /\ ~InSeq("AssertionError", q.rejections)
      /\ ~InSeq("listOrganizationMemberships", q.rejections)
      /\ \/ InSeq("bearerTokenMiddleware", q.next)
         \/ Len(q.responses) = 1 /\ q.responses[1].status = 401

\* C8 as claimed: a request to the route without an Authorization header is
\* answered 401 with the challenge, for every organization id under both
\* policies.
C8_NoHeaderAlways401 ==
  \A r \in Requests :
    LET q == requests[r] IN
    (Routed(q) /\ q.authorization = Undefined) =>
      /\ Len(q.responses) = 1
      /\ q.responses[1].status = 401
      /\ q.responses[1].headers = {<<"WWW-Authenticate", Challenge>>}

\* C8 as amended: the same for every request whose organization id
\* hasMapping accepts; one it refuses is answered 404 without the challenge.
C8_NoHeader401WhenMapped ==
  \A r \in Requests :
    LET q == requests[r] IN
    (Routed(q) /\ q.authorization = Undefined) =>
      /\ Len(q.hasMappingCalls) = 1
      /\ Len(q.responses) = 1
      /\ IF q.hasMappingCalls[1].result
           THEN /\ q.responses[1].status = 401
                /\ q.responses[1].headers = {<<"WWW-Authenticate", Challenge>>}
           ELSE /\ q.responses[1].status = 404
                /\ q.responses[1].headers = {}

C8_Witness ==
  \E r1, r2 \in Requests :
    /\ Routed(requests[r1]) /\ requests[r1].authorization = Undefined
    /\ requests[r1].responses # <<>> /\ requests[r1].responses[1].status = 401
    /\ Routed(requests[r2]) /\ requests[r2].authorization = Undefined
    /\ requests[r2].responses # <<>> /\ requests[r2].responses[1].status = 404

\* C9: the membership query is issued only once token verification has
\* resolved with a subject, at most once, and with exactly that subject and the
\* organization id of the path; after a failed verification it is not issued.
C9_MembershipAfterVerification ==
  \A r \in Requests :
    LET q == requests[r] IN
    /\ Len(q.membershipCalls) <= 1
    /\ q.membershipCalls # <<>> =>
         /\ Len(q.jwtVerifyResults) = 1
         /\ q.jwtVerifyResults[1].resolved
         /\ q.jwtVerifyResults[1].sub \in {User1, User2}
         /\ q.membershipCalls[1] =
              [userId |-> q.jwtVerifyResults[1].sub, organizationId |-> q.path[1],
               statuses |-> <<"active">>]
    /\ (q.jwtVerifyResults # <<>> /\ ~q.jwtVerifyResults[1].resolved) =>
         q.membershipCalls = <<>>
    /\ (q.jwtVerifyResults = <<>>) => q.membershipCalls = <<>>

C9_Witness ==
  \E r1, r2 \in Requests :
    /\ requests[r1].membershipCalls # <<>>
    /\ requests[r2].pc = "done"
    /\ requests[r2].jwtVerifyResults # <<>>
    /\ ~requests[r2].jwtVerifyResults[1].resolved

\* The header has the form "Bearer <non-empty token>".
BearerForm(authorization) ==
  /\ authorization # Undefined
  /\ \E n \in 1..Len(authorization) :
       /\ n < Len(authorization)
       /\ SubSeq(authorization, 1, n) = <<"B", "e", "a", "r", "e", "r", " ">>

\* C10: a request entering the auth pipeline without an Authorization header
\* of the form "Bearer <non-empty token>" is answered 401 "No token
\* provided.", and neither jwtVerify nor the membership query is called.
C10_MalformedHeaderIsNoToken ==
  \A r \in Requests :
    LET q == requests[r] IN
    (EnteredPipeline(q) /\ ~BearerForm(q.authorization)) =>
      /\ q.pc = "done"
      /\ Len(q.responses) = 1
      /\ IsChallenge401(q.responses[1])
      /\ q.responses[1].body = [error |-> "No token provided."]
      /\ q.jwtVerifyCalls = <<>>
      /\ q.membershipCalls = <<>>
      /\ q.upstream = <<>>

C10_Witness ==
  \E r1, r2 \in Requests :
    /\ EnteredPipeline(requests[r1])
    /\ requests[r1].authorization = <<"b", "e", "a", "r", "e", "r", " ">> \o Token1
    /\ EnteredPipeline(requests[r2])
    /\ requests[r2].authorization = BearerPrefix

\* ------------------------------------------------------------ claims C11..
\* The request is addressed to /{organizationId}/mcp or to a path beneath it.
UnderMcp(q) == Len(q.path) >= 2 /\ q.path[2] = Mcp

\* C11: every request addressed to /{organizationId}/mcp or to a path beneath
\* it, whatever its method, enters the gate sequence: the mapper is consulted
\* for it, and it is not answered without the gates.
C11_EveryMcpRequestEntersGates ==
  \A r \in Requests :
    LET q == requests[r] IN
    (q.pc # "idle" /\ UnderMcp(q)) => q.hasMappingCalls # <<>>

\* The organization id of the latest call is a key of the mapping table.
HasEntry == call.organizationId \in DOMAIN mapping
\* The entry of the latest call's organization id (when it has one).
Entry == mapping[call.organizationId]

\* C12: hasMapping returns true for every organization id under the
\* Permissive policy, and under the Strict policy returns true exactly when
\* the id is a key of the mapping table.
C12_HasMappingIffKey ==
  call.method = "hasMapping" =>
    call.result.value = (IF config.strictMapping THEN HasEntry ELSE TRUE)

\* C13: getPartition returns the entry's partition for a key of the table;
\* for an absent id the Permissive mapper returns the lowercased id and the
\* Strict mapper raises OrganizationNotFound.
C13_PartitionOrFallback ==
  call.method = "getPartition" =>
    call.result =
      IF HasEntry THEN Return(Entry.partition)
      ELSE IF config.strictMapping
        THEN Throw(NotFoundMessage, call.organizationId)
        ELSE Return(toLowerCase(call.organizationId))

\* C14: for an entry that carries a credential getApiKey returns exactly
\* that credential, under both API-key policies and both resolver policies.
C14_EntryCredentialReturned ==
  (call.method = "getApiKey" /\ HasEntry /\ Entry.apiKey # Undefined) =>
    call.result = Return(Entry.apiKey)

\* C15: for an entry without a credential, under AllowFallback getApiKey
\* returns the configured default credential, under both resolver policies.
C15_FallbackToDefault ==
  ( /\ call.method = "getApiKey"
    /\ HasEntry /\ Entry.apiKey = Undefined
    /\ ~config.strictApiKeys )
  => call.result = Return(config.ragieApiKey)

C15_Witness ==
  /\ call.method = "getApiKey"
  /\ HasEntry /\ Entry.apiKey = Undefined
  /\ ~config.strictApiKeys
  /\ config.strictMapping
  /\ call.result.value = DefaultKey

\* C16: for an entry without a credential, under RequireExplicit getApiKey
\* raises "Organization <id> has no API key in mapping" and returns nothing,
\* under both resolver policies.
C16_MissingApiKeyRaised ==
  ( /\ call.method = "getApiKey"
    /\ HasEntry /\ Entry.apiKey = Undefined
    /\ config.strictApiKeys )
  => call.result = Throw(NoApiKeyMessage, call.organizationId)

C16_Witness ==
  /\ call.method = "getApiKey"
  /\ HasEntry /\ Entry.apiKey = Undefined
  /\ config.strictApiKeys
  /\ ~config.strictMapping
  /\ call.result.threw

\* C17: for an organization id with no entry, getApiKey returns the default
\* credential under Permissive and fails with OrganizationNotFound under
\* Strict, whatever the API-key policy.
C17_NoEntryDefaultOrNotFound ==
  (call.method = "getApiKey" /\ ~HasEntry) =>
    call.result =
      IF config.strictMapping
        THEN Throw(NotFoundMessage, call.organizationId)
        ELSE Return(config.ragieApiKey)

\* C18: under RequireExplicit a mapper returned by load has no entry lacking
\* a credential, and getApiKey never raises "has no API key in mapping" at
\* request time for an organization id of the loaded table.
C18_LoadedTableNeverMissesApiKey ==
  (config.strictApiKeys /\ main = Constructed) =>
    /\ \A id \in DOMAIN mapping : mapping[id].apiKey # Undefined
    /\ (call.method = "getApiKey" /\ HasEntry) =>
         ~(call.result.threw /\ call.result.message = NoApiKeyMessage)

\* loadMapper fails for this configuration and this mapping file.
LoadFails == loadMapper(config, mappingFile).threw

\* C19: when loading the mapping fails (unreadable file, invalid JSON, an
\* entry without partition, an entry without a required credential), main
\* ends in process.exit(1) with no Gateway started: no start() call is ever
\* made, no server is ever created and isRunning is never set.
C19_FailedLoadNeverListens ==
  LoadFails =>
    /\ main.pc \in {"loadMapper", "exit(1)"}
    /\ calls = <<>>
    /\ servers = <<>>
    /\ ~isRunning

C19_Witness ==
  /\ mappingFile = JsonFile(TableNoPartition)
  /\ main = Exit1(ValidationFailedMessage)

\* C20: isActive() is true whenever a start() has just resolved and false
\* whenever a stop() has just resolved, and it is false as long as no
\* start() has been called.
C20_ActiveFollowsStartStop ==
  /\ \A c \in DOMAIN calls :
       calls[c].state = "resolved" => (calls[c].active <=> calls[c].op = "start")
  /\ (\A c \in DOMAIN calls : calls[c].op # "start") => ~isRunning

C20_Witness ==
  \E c1, c2 \in DOMAIN calls :
    /\ c1 < c2
    /\ calls[c1].op = "start" /\ calls[c1].state = "resolved"
    /\ calls[c2].op = "stop" /\ calls[c2].state = "resolved"
    /\ events = <<"started", "stopped">>

\* ------------------------------------------------------------ claims C21..
\* The step makes a new start() or stop() call.
NewCall(op) ==
  /\ Len(calls') = Len(calls) + 1
  /\ calls'[Len(calls')].op = op

\* C21: start() on a running gateway and stop() on a gateway that is not
\* running are no-ops: the call resolves at once, isRunning, the server field
\* and every server stay as they were, and no event is emitted.
C21_RedundantCallsAreNoOps ==
  [][ ((NewCall("start") /\ isRunning) \/ (NewCall("stop") /\ ~isRunning))
      => /\ calls'[Len(calls')].state = "resolved"
         /\ UNCHANGED <<isRunning, server, servers, events>> ]_vars

C21_Witness ==
  /\ Len(calls) = 3
  /\ calls[1].op = "stop" /\ calls[1].state = "resolved"
  /\ calls[2].op = "start" /\ calls[2].state = "resolved"
  /\ calls[3].op = "start" /\ calls[3].state = "resolved"
  /\ Len(servers) = 1
  /\ events = <<"started">>

\* The gateway's own middleware answered the request 404 or 401.
GateRefused(q) ==
  \E i \in DOMAIN q.responses :
    \/ q.responses[i] = NotFoundResponse
    \/ q.responses[i].status = 401

\* C22: a request that ensureMappingMiddleware answered 404 or
\* bearerTokenMiddleware answered 401 (the membership denial included) is
\* halted there: the middleware that answered never calls next(), the request
\* gets that one response and nothing is forwarded for it.
C22_RefusalHalts ==
  \A r \in Requests :
    LET q == requests[r] IN
    GateRefused(q) =>
      /\ q.pc = "done"
      /\ Len(q.responses) = 1
      /\ q.upstream = <<>>
      /\ ~InSeq("bearerTokenMiddleware", q.next)
      /\ q.responses[1] = NotFoundResponse => q.next = <<>>

C22_Witness ==
  \E r1, r2 \in Requests :
    /\ requests[r1].responses = <<NotFoundResponse>>
    /\ MembershipDenied(requests[r2])
    /\ requests[r2].responses = <<MembershipDeniedResponse(config)>>

\* What a request came to: the responses the gate sequence gave it and what
\* was forwarded for it.  For a request whose handler faulted the outcome is
\* the fault; what the framework then does is the same for every request.
Outcome(q) ==
  [responses |-> IF q.rejections # <<>> THEN <<>> ELSE q.responses,
   upstream |-> q.upstream,
   rejections |-> q.rejections]

\* What a request brought and what the collaborators returned for it.
Inputs(q) ==
  [method |-> q.method, path |-> q.path, authorization |-> q.authorization,
   jwtVerifyResults |-> q.jwtVerifyResults,
   membershipResults |-> q.membershipResults]

\* C23: a request's outcome is a function of its own method, path and
\* Authorization header and of the collaborator results obtained for it: two
\* finished requests that agree on these have the same outcome, whatever was
\* handled before or in between; and a request whose membership query
\* returned the empty list is denied whatever other requests were allowed.
C23_OutcomeIndependentOfOthers ==
  /\ \A r1, r2 \in Requests :
       ( /\ r1 < r2
         /\ requests[r1].pc = "done" /\ requests[r2].pc = "done"
         /\ Inputs(requests[r1]) = Inputs(requests[r2]) )
       => Outcome(requests[r1]) = Outcome(requests[r2])
  /\ \A r \in Requests :
       LET q == requests[r] IN
       q.membershipResults = <<MembershipData(<<>>)>> =>
         /\ q.responses = <<MembershipDeniedResponse(config)>>
         /\ q.upstream = <<>>

C23_Witness ==
  \E r1, r2 \in Requests :
    /\ requests[r1].upstream # <<>>
    /\ requests[r2].path = requests[r1].path
    /\ requests[r2].authorization = requests[r1].authorization
    /\ requests[r2].membershipResults = <<MembershipData(<<>>)>>
    /\ requests[r2].pc = "done"

\* The mapper answered alike for two requests of the same organization id:
\* the same hasMapping result, and the same partition and credential in what
\* was forwarded.
SameAnswers(q1, q2) ==
  /\ (q1.hasMappingCalls # <<>> /\ q2.hasMappingCalls # <<>>)
       => q1.hasMappingCalls = q2.hasMappingCalls
  /\ (q1.upstream # <<>> /\ q2.upstream # <<>>) => q1.upstream = q2.upstream

\* C24: the mapping table and the configuration are never modified once the
\* mapper is built: no step of any request changes them, and the mapper's
\* methods answer alike whenever they are called again with the same
\* organization id.
C24_MappingNeverModified ==
  [][ /\ UNCHANGED <<config, mapping>>
      /\ \A r1, r2 \in Requests :
           (r1 < r2 /\ requests'[r1].organizationId = requests'[r2].organizationId)
             => SameAnswers(requests'[r1], requests'[r2]) ]_vars

C24_Witness ==
  \E r1, r2 \in Requests :
    /\ r1 < r2
    /\ requests[r1].organizationId = Org1
    /\ requests[r2].organizationId = Org1
    /\ requests[r1].upstream # <<>>
    /\ requests[r2].upstream # <<>>
    /\ requests[r1].authorization # requests[r2].authorization

\* The fields of the file's entries that the schema in force requires and
\* that are missing, each by its path.
MissingFields ==
  { <<id, "partition">> :
      id \in {k \in DOMAIN mappingFile.entries :
                mappingFile.entries[k].partition = Undefined} }
  \cup
  IF config.strictApiKeys
    THEN { <<id, "apiKey">> :
             id \in {k \in DOMAIN mappingFile.entries :
                       mappingFile.entries[k].apiKey = Undefined} }
    ELSE {}

\* C25: a mapping file that cannot be read or is not valid JSON fails with
\* "Failed to read JSON file"; a parsed file that violates the table shape
\* fails with "Mapping file validation failed" naming the path of every
\* offending field; and a failed load hands no mapper to main.
C25_LoadFailuresDistinguished ==
  LET loaded == loadMapper(config, mappingFile) IN
  /\ (mappingFile.configured /\ ~(mappingFile.readable /\ mappingFile.parses))
       => loaded = Throw(ReadFailedMessage, {})
  /\ (mappingFile.parses /\ ~mappingFile.isObject)
       => loaded = Throw(ValidationFailedMessage, {<< >>})
  /\ (mappingFile.isObject /\ MissingFields # {})
       => loaded = Throw(ValidationFailedMessage, MissingFields)
  /\ loaded.threw => (main # Constructed /\ mapping = << >>)

C25_Witness ==
  /\ mappingFile = InvalidJsonFile
  /\ main = Exit1(ReadFailedMessage)

\* C26: a forwarded request was checked for membership in the organization
\* of its own path, and the partition and the credential of the forward are
\* the ones the mapper gives for that same organization id.
C26_ForwardUsesVerifiedOrganization ==
  \A r \in Requests :
    LET q == requests[r] IN
    q.upstream # <<>> =>
      /\ Len(q.membershipCalls) = 1
      /\ q.membershipCalls[1].organizationId = q.path[1]
      /\ LET verified == q.membershipCalls[1].organizationId IN
         /\ q.upstream[1].path =
              pathRewrite(getPartition(config, mapping, verified).value)
         /\ q.upstream[1].authorization =
              BearerPrefix \o TemplateString(getApiKey(config, mapping, verified).value)

C26_Witness ==
  \E r \in Requests :
    /\ requests[r].organizationId = Org2
    /\ Org2 \in DOMAIN mapping
    /\ requests[r].upstream =
         <<[path |-> <<Mcp, P2, <<>>>>, authorization |-> BearerPrefix \o DefaultKey]>>

\* C27: every stop() call resolves in the end: none is left with a promise
\* that no callback will ever settle, whether it was made while an earlier
\* stop() waits for server.close or while the server field holds a server
\* that is not listening.
C27_StopNeverHangs ==
  \A c \in DOMAIN calls :
    (calls[c].op = "stop" /\ calls[c].state = "pending") =>
      /\ calls[c].server # 0
      /\ servers[calls[c].server].state = "closing"

\* The servers of this gateway that hold a listening handle.
ListeningServers == {i \in DOMAIN servers : Listening(servers[i])}

\* C28: whenever isActive() is true the server field refers to a server that
\* is listening, and the gateway never has more than one listening server.
C28_ActiveMeansListening ==
  /\ isRunning => (server # 0 /\ Listening(servers[server]))
  /\ Cardinality(ListeningServers) <= 1

\* The events alternate, 'started' first.
Alternate(evs) ==
  \A i \in DOMAIN evs : evs[i] = IF i % 2 = 1 THEN "started" ELSE "stopped"

\* C29: 'started' is emitted exactly in the steps that take isRunning from
\* false to true and 'stopped' exactly in those that take it from true to
\* false, so the events emitted alternate, beginning with 'started'.
C29_EventsFollowIsRunning ==
  [][ /\ (events' = Append(events, "started")) <=> (~isRunning /\ isRunning')
      /\ (events' = Append(events, "stopped")) <=> (isRunning /\ ~isRunning')
      /\ (events' # events) =>
           \/ events' = Append(events, "started")
           \/ events' = Append(events, "stopped")
      /\ Alternate(events') ]_vars

\* C30: for an organization id that is a key of the mapping table, a
\* DefaultMapper and a StrictMapper over the same table and config answer
\* alike from hasMapping, getPartition and getApiKey (the same value or the
\* same error), under either API-key policy.
C30_MappersAgreeOnKeys ==
  (call.method # "" /\ HasEntry) =>
    LET id == call.organizationId IN
    /\ DefaultMapper_hasMapping(mapping, id) = StrictMapper_hasMapping(mapping, id)
    /\ DefaultMapper_getPartition(mapping, id) = StrictMapper_getPartition(mapping, id)
    /\ DefaultMapper_getApiKey(config, mapping, id)
         = StrictMapper_getApiKey(config, mapping, id)
    /\ call.method = "hasMapping" =>
         call.result = Return(DefaultMapper_hasMapping(mapping, id))
    /\ call.method = "getPartition" =>
         call.result = DefaultMapper_getPartition(mapping, id)
    /\ call.method = "getApiKey" =>
         call.result = DefaultMapper_getApiKey(config, mapping, id)

C30_Witness ==
  /\ config.strictMapping
  /\ call.method = "getPartition"
  /\ call.organizationId = Org2
  /\ HasEntry
  /\ call.result = Return(P2)

====
